---- MODULE Spec2Model ----
(***************************************************************************)
(* Byte-lane parallel arithmetic of the eight_bytes crate: a u8x8 is one   *)
(* u64 read as eight u8 lanes, a mask8x8 is one u64 whose bytes are 0x00   *)
(* or 0x01.  A u64 is modelled as its eight bytes in order of              *)
(* significance (index 1 is the least significant byte), so that every     *)
(* whole-word step of the source (add, subtract, multiply, shift, and, or, *)
(* xor, not) is computed with its carries and borrows running across the   *)
(* byte boundaries exactly as in the 64-bit register.                      *)
(***************************************************************************)
EXTENDS Integers, Sequences, FiniteSets, TLC

VARIABLES
    target_endian,  \* byte order of the build target: "little" or "big"
    a,              \* self.n of the first operand
    b,              \* other.n of the second operand
    op,             \* the operation that has been applied, "none" before
    res,            \* the u8x8 or mask8x8 the operation returned (its n)
    num,            \* the u8 or u32 the operation returned
    bools,          \* the [bool; 8] the operation returned
    panicked,       \* TRUE when an overflow-checked step of it overflowed
    origin,         \* the operation that built the operand a
    v1,             \* first u8 or usize argument of an operation, 0 if none
    v2              \* second u8 argument of an operation, 0 if none

vars == <<target_endian, a, b, op, res, num, bools, panicked, origin, v1, v2>>

----------------------------------------------------------------------------
(* Bounds of the model.                                                    *)

\* Lane values are drawn from the first NumSamples entries of Samples.
NumSamples == 4

\* Input arrays repeat a pattern of Period lane values.
Period == 2

Samples == <<0, 255, 128, 127, 1, 254, 85, 15, 240, 2>>

SampleSet == {Samples[k] : k \in 1..NumSamples}

Lanes == 0..7

InputArrays ==
    {[i \in Lanes |-> p[i % Period]] : p \in [0..(Period - 1) -> SampleSet]}

----------------------------------------------------------------------------
(* u64 primitives on the byte representation.                              *)

Limbs == 1..8

\* bit k of a byte
Bit(v, k) == (v \div (2 ^ k)) % 2

\* u8 & u8, bit by bit
and_bits(x, y) ==
    Bit(x, 0) * Bit(y, 0) + 2 * Bit(x, 1) * Bit(y, 1)
    + 4 * Bit(x, 2) * Bit(y, 2) + 8 * Bit(x, 3) * Bit(y, 3)
    + 16 * Bit(x, 4) * Bit(y, 4) + 32 * Bit(x, 5) * Bit(y, 5)
    + 64 * Bit(x, 6) * Bit(y, 6) + 128 * Bit(x, 7) * Bit(y, 7)

\* the values of & on four-bit halves, tabulated once:
\* and_table[x + 1][y + 1] is x & y for x, y in 0..15
RECURSIVE and_row(_, _)
and_row(x, y) ==
    IF y > 15 THEN <<>> ELSE <<and_bits(x, y)>> \o and_row(x, y + 1)

RECURSIVE and_rows(_)
and_rows(x) ==
    IF x > 15 THEN <<>> ELSE <<and_row(x, 0)>> \o and_rows(x + 1)

and_table == and_rows(0)

\* u8 & u8
and8(x, y) ==
    and_table[(x % 16) + 1][(y % 16) + 1]
    + 16 * and_table[(x \div 16) + 1][(y \div 16) + 1]

\* the u64 literal whose every byte is v (0x7f7f..., 0x8080..., ...)
rep(v) == <<v, v, v, v, v, v, v, v>>

\* the u64 value of a small number v < 256
u64_from_u8(v) == <<v, 0, 0, 0, 0, 0, 0, 0>>

u64_and(x, y) ==
    LET f(k) == and8(x[k], y[k])
    IN  <<f(1), f(2), f(3), f(4), f(5), f(6), f(7), f(8)>>

u64_or(x, y) ==
    LET f(k) == x[k] + y[k] - and8(x[k], y[k])
    IN  <<f(1), f(2), f(3), f(4), f(5), f(6), f(7), f(8)>>

u64_xor(x, y) ==
    LET f(k) == x[k] + y[k] - 2 * and8(x[k], y[k])
    IN  <<f(1), f(2), f(3), f(4), f(5), f(6), f(7), f(8)>>

u64_not(x) ==
    LET f(k) == 255 - x[k]
    IN  <<f(1), f(2), f(3), f(4), f(5), f(6), f(7), f(8)>>

\* x >> s for 0 <= s < 64
u64_shr(x, s) ==
    LET q == s \div 8
        r == s % 8
        at(k) == IF k \in Limbs THEN x[k] ELSE 0
        f(k) == (at(k + q) \div (2 ^ r)) + (at(k + q + 1) % (2 ^ r)) * (2 ^ (8 - r))
    IN  <<f(1), f(2), f(3), f(4), f(5), f(6), f(7), f(8)>>

\* x + y: n is the sum modulo 2^64, panic tells that the true sum is larger.
\* sk is the sum of the bytes of significance k and the carry into them.
u64_add(x, y) ==
    LET s1 == x[1] + y[1]
        s2 == x[2] + y[2] + (s1 \div 256)
        s3 == x[3] + y[3] + (s2 \div 256)
        s4 == x[4] + y[4] + (s3 \div 256)
        s5 == x[5] + y[5] + (s4 \div 256)
        s6 == x[6] + y[6] + (s5 \div 256)
        s7 == x[7] + y[7] + (s6 \div 256)
        s8 == x[8] + y[8] + (s7 \div 256)
    IN  [n |-> <<s1 % 256, s2 % 256, s3 % 256, s4 % 256,
                 s5 % 256, s6 % 256, s7 % 256, s8 % 256>>,
         panic |-> s8 > 255]

\* x - y: n is the difference modulo 2^64, panic tells that x < y.
\* dk is the difference of the bytes of significance k less the borrow
\* out of the bytes below them.
u64_sub(x, y) ==
    LET w(d) == IF d < 0 THEN 1 ELSE 0
        d1 == x[1] - y[1]
        d2 == x[2] - y[2] - w(d1)
        d3 == x[3] - y[3] - w(d2)
        d4 == x[4] - y[4] - w(d3)
        d5 == x[5] - y[5] - w(d4)
        d6 == x[6] - y[6] - w(d5)
        d7 == x[7] - y[7] - w(d6)
        d8 == x[8] - y[8] - w(d7)
    IN  [n |-> <<d1 % 256, d2 % 256, d3 % 256, d4 % 256,
                 d5 % 256, d6 % 256, d7 % 256, d8 % 256>>,
         panic |-> d8 < 0]

\* the significance of the highest non-zero byte among bytes 1..k of x,
\* 0 when there is none
RECURSIVE top(_, _)
top(x, k) == IF k = 0 \/ x[k] # 0 THEN k ELSE top(x, k - 1)

\* the sum of the byte products x[i] * y[k + 1 - i] for i in i..hi
RECURSIVE column(_, _, _, _, _)
column(x, y, k, i, hi) ==
    IF i > hi THEN 0
    ELSE x[i] * y[k + 1 - i] + column(x, y, k, i + 1, hi)

\* bytes k..16 of the full product x * y, c being the carry into byte k;
\* lx and ly are the highest non-zero bytes of x and y
RECURSIVE mul_from(_, _, _, _, _, _)
mul_from(x, y, lx, ly, k, c) ==
    IF k > 16 THEN <<>>
    ELSE LET lo == IF k + 1 - ly > 1 THEN k + 1 - ly ELSE 1
             hi == IF k < lx THEN k ELSE lx
             t  == column(x, y, k, lo, hi) + c
         IN  <<t % 256>> \o mul_from(x, y, lx, ly, k + 1, t \div 256)

\* x * y: n is the product modulo 2^64, panic tells that the true product
\* does not fit
u64_mul(x, y) ==
    LET r == mul_from(x, y, top(x, 8), top(y, 8), 1, 0)
    IN  [n |-> SubSeq(r, 1, 8), panic |-> \E k \in 9..16 : r[k] # 0]

u64_wrapping_add(x, y) == u64_add(x, y).n

u64_wrapping_sub(x, y) == u64_sub(x, y).n

\* u64::from_ne_bytes and u64::to_ne_bytes: array index i is byte i of the
\* word in memory, which is the byte of significance i on a little-endian
\* target and of significance 7 - i on a big-endian one
from_ne_bytes(arr, endian) ==
    LET f(k) == IF endian = "little" THEN arr[k - 1] ELSE arr[8 - k]
    IN  <<f(1), f(2), f(3), f(4), f(5), f(6), f(7), f(8)>>

to_ne_bytes(n, endian) ==
    [i \in Lanes |-> IF endian = "little" THEN n[i + 1] ELSE n[8 - i]]

----------------------------------------------------------------------------
(* Constants of u8x8.rs.                                                   *)

ALL_ONES == rep(\h01)

WITHOUT_HIGH_BITS == rep(\h7f)

ONLY_HIGH_BITS == rep(\h80)

----------------------------------------------------------------------------
(* u8x8 (u8x8.rs).  Every operation takes the n fields of its operands and *)
(* returns the n field of its result with the panic flag of its            *)
(* overflow-checked steps.                                                 *)

from_array(arr, endian) == from_ne_bytes(arr, endian)

to_array(n, endian) == to_ne_bytes(n, endian)

\* v as u64 * ALL_ONES
splat(v) == u64_mul(u64_from_u8(v), ALL_ONES)

\* (n >> 7) * 255: spreads bit 0 of every byte over the whole byte
msb_mask(n) == u64_mul(u64_shr(n, 7), u64_from_u8(255))

equals_without_or(self, other) ==
    LET xo == u64_xor(self, other)
        s  == u64_add(u64_and(xo, WITHOUT_HIGH_BITS), WITHOUT_HIGH_BITS)
        lo == s.n
        hi == u64_and(u64_not(lo), ONLY_HIGH_BITS)
    IN  [n |-> u64_shr(hi, 7), panic |-> s.panic]

equals(self, other) ==
    LET xo == u64_xor(self, other)
        s  == u64_add(u64_and(xo, WITHOUT_HIGH_BITS), WITHOUT_HIGH_BITS)
        lo == u64_or(s.n, xo)
        hi == u64_and(u64_not(lo), ONLY_HIGH_BITS)
    IN  [n |-> u64_shr(hi, 7), panic |-> s.panic]

less_than_diff_only(self, other) ==
    LET diff   == u64_wrapping_sub(u64_or(self, ONLY_HIGH_BITS),
                                   u64_and(other, u64_not(ONLY_HIGH_BITS)))
        select == u64_and(diff, ONLY_HIGH_BITS)
        inv    == u64_xor(select, ONLY_HIGH_BITS)
    IN  [n |-> u64_shr(inv, 7), panic |-> FALSE]

less_than(self, other) ==
    LET diff   == u64_wrapping_sub(u64_or(self, ONLY_HIGH_BITS),
                                   u64_and(other, u64_not(ONLY_HIGH_BITS)))
        x      == u64_xor(self, other)
        select == u64_and(u64_or(u64_and(self, x), u64_and(diff, u64_not(x))),
                          ONLY_HIGH_BITS)
        inv    == u64_xor(select, ONLY_HIGH_BITS)
    IN  [n |-> u64_shr(inv, 7), panic |-> FALSE]

greater_than(self, other) ==
    LET diff   == u64_wrapping_sub(u64_or(other, ONLY_HIGH_BITS),
                                   u64_and(self, u64_not(ONLY_HIGH_BITS)))
        x      == u64_xor(other, self)
        select == u64_and(u64_or(u64_and(other, x), u64_and(diff, u64_not(x))),
                          ONLY_HIGH_BITS)
        inv    == u64_xor(select, ONLY_HIGH_BITS)
    IN  [n |-> u64_shr(inv, 7), panic |-> FALSE]

wrapping_add_unmasked(self, other) ==
    LET low == u64_wrapping_add(self, other)
    IN  [n |-> u64_xor(low, u64_and(u64_xor(self, other), ONLY_HIGH_BITS)),
         panic |-> FALSE]

wrapping_add(self, other) ==
    LET low == u64_wrapping_add(u64_and(self, WITHOUT_HIGH_BITS),
                                u64_and(other, WITHOUT_HIGH_BITS))
    IN  [n |-> u64_xor(low, u64_and(u64_xor(self, other), ONLY_HIGH_BITS)),
         panic |-> FALSE]

\* the carry indicator of saturating_add and the borrow indicator of
\* saturating_sub, abs_difference, max and min
carry_of(self, other, sum) ==
    u64_and(u64_or(u64_and(self, other),
                   u64_and(u64_or(self, other), u64_not(sum))),
            ONLY_HIGH_BITS)

borrow_of(self, other, diff) ==
    u64_and(u64_or(u64_and(u64_not(self), other),
                   u64_and(u64_or(u64_not(self), other), diff)),
            ONLY_HIGH_BITS)

saturating_add_both_high(self, other) ==
    LET sum   == wrapping_add(self, other)
        carry == u64_and(u64_and(self, other), ONLY_HIGH_BITS)
        m     == msb_mask(carry)
    IN  [n |-> u64_or(sum.n, m.n), panic |-> sum.panic \/ m.panic]

saturating_add(self, other) ==
    LET sum   == wrapping_add(self, other)
        carry == carry_of(self, other, sum.n)
        m     == msb_mask(carry)
    IN  [n |-> u64_or(sum.n, m.n), panic |-> sum.panic \/ m.panic]

wrapping_sub_unguarded(self, other) ==
    LET d == u64_wrapping_sub(self, u64_and(other, WITHOUT_HIGH_BITS))
    IN  [n |-> u64_xor(d, u64_and(u64_xor(self, u64_not(other)), ONLY_HIGH_BITS)),
         panic |-> FALSE]

wrapping_sub(self, other) ==
    LET d == u64_wrapping_sub(u64_or(self, ONLY_HIGH_BITS),
                              u64_and(other, WITHOUT_HIGH_BITS))
    IN  [n |-> u64_xor(d, u64_and(u64_xor(self, u64_not(other)), ONLY_HIGH_BITS)),
         panic |-> FALSE]

saturating_sub_high_only(self, other) ==
    LET diff   == wrapping_sub(self, other)
        borrow == u64_and(u64_and(u64_not(self), other), ONLY_HIGH_BITS)
        m      == msb_mask(borrow)
    IN  [n |-> u64_and(diff.n, u64_not(m.n)), panic |-> diff.panic \/ m.panic]

saturating_sub(self, other) ==
    LET diff   == wrapping_sub(self, other)
        borrow == borrow_of(self, other, diff.n)
        m      == msb_mask(borrow)
    IN  [n |-> u64_and(diff.n, u64_not(m.n)), panic |-> diff.panic \/ m.panic]

abs_difference_unordered(self, other) ==
    LET lo == self
        hi == other
        d  == u64_sub(u64_or(lo, ONLY_HIGH_BITS), u64_and(hi, WITHOUT_HIGH_BITS))
    IN  [n |-> u64_xor(d.n, u64_and(u64_xor(lo, u64_not(hi)), ONLY_HIGH_BITS)),
         panic |-> d.panic]

abs_difference(self, other) ==
    LET diff   == u64_wrapping_sub(self, other)
        borrow == borrow_of(self, other, diff)
        m      == msb_mask(borrow)
        lo     == u64_or(u64_and(self, u64_not(m.n)), u64_and(other, m.n))
        hi     == u64_or(u64_and(self, m.n), u64_and(other, u64_not(m.n)))
        d      == u64_sub(u64_or(lo, ONLY_HIGH_BITS), u64_and(hi, WITHOUT_HIGH_BITS))
    IN  [n |-> u64_xor(d.n, u64_and(u64_xor(lo, u64_not(hi)), ONLY_HIGH_BITS)),
         panic |-> m.panic \/ d.panic]

max_by_diff_sign(self, other) ==
    LET diff   == u64_wrapping_sub(self, other)
        borrow == u64_and(diff, ONLY_HIGH_BITS)
        m      == msb_mask(borrow)
    IN  [n |-> u64_or(u64_and(self, u64_not(m.n)), u64_and(other, m.n)),
         panic |-> m.panic]

max(self, other) ==
    LET diff   == u64_wrapping_sub(self, other)
        borrow == borrow_of(self, other, diff)
        m      == msb_mask(borrow)
    IN  [n |-> u64_or(u64_and(self, u64_not(m.n)), u64_and(other, m.n)),
         panic |-> m.panic]

min(self, other) ==
    LET diff   == u64_wrapping_sub(self, other)
        borrow == borrow_of(self, other, diff)
        m      == msb_mask(borrow)
    IN  [n |-> u64_or(u64_and(self, m.n), u64_and(other, u64_not(m.n))),
         panic |-> m.panic]

mean_unmasked(self, other) ==
    LET shared == u64_and(self, other)
        diff   == u64_xor(self, other)
        s      == u64_add(shared, u64_shr(diff, 1))
    IN  [n |-> s.n, panic |-> s.panic]

mean(self, other) ==
    LET shared == u64_and(self, other)
        diff   == u64_and(u64_xor(self, other), rep(\hfe))
        s      == u64_add(shared, u64_shr(diff, 1))
    IN  [n |-> s.n, panic |-> s.panic]

popcount_unmasked_pairs(self) ==
    LET t  == u64_sub(self, u64_and(u64_shr(self, 1), rep(\h55)))
        x  == t.n
        y  == u64_wrapping_add(u64_and(x, rep(\h33)), u64_shr(x, 2))
        s  == u64_add(y, u64_shr(y, 4))
    IN  [n |-> u64_and(s.n, rep(\h0f)), panic |-> t.panic \/ s.panic]

popcount(self) ==
    LET t  == u64_sub(self, u64_and(u64_shr(self, 1), rep(\h55)))
        x  == t.n
        y  == u64_wrapping_add(u64_and(x, rep(\h33)),
                               u64_and(u64_shr(x, 2), rep(\h33)))
        s  == u64_add(y, u64_shr(y, 4))
    IN  [n |-> u64_and(s.n, rep(\h0f)), panic |-> t.panic \/ s.panic]

----------------------------------------------------------------------------
(* u8x8 as defined in lib.rs: the same four operations written with the    *)
(* overflow-checked operators + and - on the whole word.                   *)

lib_wrapping_add_whole_word(self, other) == u64_add(self, other)

lib_wrapping_add(self, other) ==
    LET low == u64_add(u64_and(self, WITHOUT_HIGH_BITS),
                       u64_and(other, WITHOUT_HIGH_BITS))
    IN  [n |-> u64_xor(low.n, u64_and(u64_xor(self, other), ONLY_HIGH_BITS)),
         panic |-> low.panic]

lib_saturating_add(self, other) ==
    LET sum   == lib_wrapping_add(self, other)
        carry == carry_of(self, other, sum.n)
        m     == u64_mul(u64_shr(carry, 7), u64_from_u8(\hff))
    IN  [n |-> u64_or(sum.n, m.n), panic |-> sum.panic \/ m.panic]

lib_wrapping_sub(self, other) ==
    LET d == u64_sub(u64_or(self, ONLY_HIGH_BITS),
                     u64_and(other, WITHOUT_HIGH_BITS))
    IN  [n |-> u64_xor(d.n, u64_and(u64_xor(self, u64_not(other)), ONLY_HIGH_BITS)),
         panic |-> d.panic]

lib_saturating_sub(self, other) ==
    LET diff  == lib_wrapping_sub(self, other)
        carry == borrow_of(self, other, diff.n)
        m     == u64_mul(u64_shr(carry, 7), u64_from_u8(\hff))
    IN  [n |-> u64_and(diff.n, u64_not(m.n)), panic |-> diff.panic \/ m.panic]

----------------------------------------------------------------------------
(* The state machine: two operands are built with from_array on the        *)
(* target, then one operation is applied to them.                          *)

Init ==
    /\ target_endian \in {"little", "big"}
    /\ \E x \in InputArrays : a = from_array(x, target_endian)
    /\ \E y \in InputArrays : b = from_array(y, target_endian)
    /\ op = "none"
    /\ res = rep(0)
    /\ num = 0
    /\ bools = [i \in Lanes |-> FALSE]
    /\ panicked = FALSE
    /\ origin = "from_array"
    /\ v1 = 0
    /\ v2 = 0

Apply(name, r) ==
    /\ op = "none"
    /\ op' = name
    /\ res' = r.n
    /\ panicked' = r.panic
    /\ UNCHANGED <<target_endian, a, b, num, bools, origin, v1, v2>>

\* splat of the byte in the first lane of a
Splat == Apply("splat", splat(to_array(a, target_endian)[0]))

Equals == Apply("equals", equals(a, b))

LessThan == Apply("less_than", less_than(a, b))

GreaterThan == Apply("greater_than", greater_than(a, b))

WrappingAdd == Apply("wrapping_add", wrapping_add(a, b))

SaturatingAdd == Apply("saturating_add", saturating_add(a, b))

WrappingSub == Apply("wrapping_sub", wrapping_sub(a, b))

SaturatingSub == Apply("saturating_sub", saturating_sub(a, b))

AbsDifference == Apply("abs_difference", abs_difference(a, b))

Max == Apply("max", max(a, b))

Min == Apply("min", min(a, b))

Mean == Apply("mean", mean(a, b))

Popcount == Apply("popcount", popcount(a))

LibWrappingAdd == Apply("lib_wrapping_add", lib_wrapping_add(a, b))

LibSaturatingAdd == Apply("lib_saturating_add", lib_saturating_add(a, b))

LibWrappingSub == Apply("lib_wrapping_sub", lib_wrapping_sub(a, b))

LibSaturatingSub == Apply("lib_saturating_sub", lib_saturating_sub(a, b))

Next ==
    \/ Splat
    \/ Equals
    \/ LessThan
    \/ GreaterThan
    \/ WrappingAdd
    \/ SaturatingAdd
    \/ WrappingSub
    \/ SaturatingSub
    \/ AbsDifference
    \/ Max
    \/ Min
    \/ Mean
    \/ Popcount
    \/ LibWrappingAdd
    \/ LibSaturatingAdd
    \/ LibWrappingSub
    \/ LibSaturatingSub

Spec == Init /\ [][Next]_vars

----------------------------------------------------------------------------
(* Lane views used by the properties.                                      *)

A(i) == to_array(a, target_endian)[i]

B(i) == to_array(b, target_endian)[i]

R(i) == to_array(res, target_endian)[i]

\* number of set bits of a u8
count_of_set_bits(v) ==
    Bit(v, 0) + Bit(v, 1) + Bit(v, 2) + Bit(v, 3)
    + Bit(v, 4) + Bit(v, 5) + Bit(v, 6) + Bit(v, 7)

----------------------------------------------------------------------------
(* Properties.                                                             *)

\* C1: wrapping_add(a,b) lane i is (a_i + b_i) mod 256 in every lane, so a
\* carry out of a lane changes no other lane; this holds of the u8x8.rs
\* version and of the lib.rs version, whose checked + does not overflow.
C1_WrappingAddLanes ==
    (op \in {"wrapping_add", "lib_wrapping_add"}) =>
        /\ ~panicked
        /\ \A i \in Lanes : R(i) = (A(i) + B(i)) % 256

C1_Witness ==
    /\ op = "wrapping_add"
    /\ \E i, j \in Lanes :
        /\ A(i) + B(i) > 255
        /\ A(j) + B(j) < 255
        /\ R(j) = A(j) + B(j)

\* C2: saturating_add(a,b) lane i is min(255, a_i + b_i): an overflowing
\* lane is 0xFF, every other lane is the exact sum, whatever the other
\* lanes hold.
C2_SaturatingAddLanes ==
    (op \in {"saturating_add", "lib_saturating_add"}) =>
        /\ ~panicked
        /\ \A i \in Lanes :
            R(i) = IF A(i) + B(i) > 255 THEN 255 ELSE A(i) + B(i)

C2_Witness ==
    /\ op = "saturating_add"
    /\ \E i, j \in Lanes :
        /\ A(i) + B(i) > 255
        /\ R(i) = 255
        /\ A(j) + B(j) < 255
        /\ R(j) = A(j) + B(j)

\* C3: wrapping_sub(a,b) lane i is (a_i - b_i) mod 256 in every lane, so a
\* borrow in a lane changes no other lane.
C3_WrappingSubLanes ==
    (op \in {"wrapping_sub", "lib_wrapping_sub"}) =>
        /\ ~panicked
        /\ \A i \in Lanes : R(i) = (A(i) - B(i)) % 256

C3_Witness ==
    /\ op = "wrapping_sub"
    /\ \E i, j \in Lanes :
        /\ A(i) < B(i)
        /\ R(i) = 256 + A(i) - B(i)
        /\ A(j) >= B(j)
        /\ R(j) = A(j) - B(j)

\* C4: saturating_sub(a,b) lane i is max(0, a_i - b_i): a lane with
\* a_i < b_i is 0x00, every other lane is the exact difference, whatever the
\* other lanes hold.
C4_SaturatingSubLanes ==
    (op \in {"saturating_sub", "lib_saturating_sub"}) =>
        /\ ~panicked
        /\ \A i \in Lanes : R(i) = IF A(i) < B(i) THEN 0 ELSE A(i) - B(i)

C4_Witness ==
    /\ op = "saturating_sub"
    /\ \E i, j \in Lanes :
        /\ A(i) < B(i)
        /\ R(i) = 0
        /\ A(j) > B(j)
        /\ R(j) = A(j) - B(j)

\* C5: max(a,b) lane i is the larger and min(a,b) lane i the smaller of a_i
\* and b_i, although the borrow indicator comes from a subtraction of the
\* whole words whose borrow runs from lower into higher lanes.
C5_MaxMinLanes ==
    /\ (op = "max") =>
        /\ ~panicked
        /\ \A i \in Lanes : R(i) = IF A(i) >= B(i) THEN A(i) ELSE B(i)
    /\ (op = "min") =>
        /\ ~panicked
        /\ \A i \in Lanes : R(i) = IF A(i) <= B(i) THEN A(i) ELSE B(i)

\* the subtraction of the whole words borrows out of byte k - 1 into byte k
BorrowRunsInto(k) ==
    /\ k \in 2..8
    /\ u64_wrapping_sub(a, b)[k] = (a[k] - b[k] - 1) % 256

C5_Witness ==
    /\ op = "max"
    /\ \E k \in 2..8 :
        /\ BorrowRunsInto(k)
        /\ a[k] = b[k]
        /\ res[k] = a[k]
        /\ a[k - 1] < b[k - 1]
        /\ res[k - 1] = b[k - 1]

\* C6: abs_difference(a,b) lane i is |a_i - b_i|, whatever borrows the
\* whole-word subtraction that orders the operands of each lane moves
\* between the lanes.
C6_AbsDifferenceLanes ==
    (op = "abs_difference") =>
        /\ ~panicked
        /\ \A i \in Lanes :
            R(i) = IF A(i) >= B(i) THEN A(i) - B(i) ELSE B(i) - A(i)

C6_Witness ==
    /\ op = "abs_difference"
    /\ \E k \in 2..8 :
        /\ BorrowRunsInto(k)
        /\ a[k] > b[k]
        /\ res[k] = a[k] - b[k]
        /\ a[k - 1] < b[k - 1]
        /\ res[k - 1] = b[k - 1] - a[k - 1]

\* C7: mean(a,b) lane i is floor((a_i + b_i) / 2), with no overflow of the
\* checked addition and no bit shifted in from the neighbouring lane.
C7_MeanLanes ==
    (op = "mean") =>
        /\ ~panicked
        /\ \A i \in Lanes : R(i) = (A(i) + B(i)) \div 2

C7_Witness ==
    /\ op = "mean"
    /\ \E k \in 2..8 :
        /\ (a[k] + b[k]) % 2 = 1
        /\ a[k] + b[k] > 255
        /\ res[k] = (a[k] + b[k]) \div 2
        /\ res[k - 1] = (a[k - 1] + b[k - 1]) \div 2
        /\ res[k - 1] < 128

\* C8: popcount(a) lane i is the number of set bits of a_i, whatever bits
\* of the neighbouring lanes the whole-word shifts by 1, 2 and 4 move over
\* the lane boundaries.
C8_PopcountLanes ==
    (op = "popcount") =>
        /\ ~panicked
        /\ \A i \in Lanes : R(i) = count_of_set_bits(A(i))

C8_Witness ==
    /\ op = "popcount"
    /\ \E k \in 2..8 :
        /\ a[k] = 255
        /\ a[k - 1] \notin {0, 255}
        /\ res[k] = 8
        /\ res[k - 1] = count_of_set_bits(a[k - 1])

\* C9: equals(a,b) has byte 0x01 in the lanes where a_i = b_i and byte 0x00
\* in the lanes where a_i # b_i.
C9_EqualsLanes ==
    (op = "equals") =>
        /\ ~panicked
        /\ \A i \in Lanes : R(i) = IF A(i) = B(i) THEN 1 ELSE 0

C9_Witness ==
    /\ op = "equals"
    /\ \E i, j \in Lanes :
        /\ A(i) = B(i)
        /\ R(i) = 1
        /\ A(j) - B(j) \in {128, -128}
        /\ R(j) = 0

----------------------------------------------------------------------------
(* mask8x8 (mask8x8.rs).  A mask operation takes the n field of the mask   *)
(* and, where it reads the byte order of the target, the target's          *)
(* endianness.                                                             *)

\* u64::swap_bytes
swap_bytes(n) == <<n[8], n[7], n[6], n[5], n[4], n[3], n[2], n[1]>>

\* u64::to_le and u64::to_be: the identity on a target of that byte order,
\* swap_bytes on the other
to_le(n, endian) == IF endian = "little" THEN n ELSE swap_bytes(n)

to_be(n, endian) == IF endian = "big" THEN n ELSE swap_bytes(n)

ALL_FALSE == rep(0)

ALL_TRUE == ALL_ONES

\* the transmute of [bool; 8] to [u8; 8]: true is 0x01 and false is 0x00
mask_from_array(bits, endian) ==
    from_ne_bytes([i \in Lanes |-> IF bits[i] THEN 1 ELSE 0], endian)

\* the transmute of [u8; 8] to [bool; 8], as the set of the arrays it can
\* give: a byte 0x01 is true and 0x00 is false; any other byte is no bool,
\* so that nothing is known of what the lane reads as
mask_to_array(n, endian) ==
    LET bytes == to_ne_bytes(n, endian)
    IN  {arr \in [Lanes -> BOOLEAN] :
            \A i \in Lanes : /\ bytes[i] = 1 => arr[i]
                             /\ bytes[i] = 0 => ~arr[i]}

\* 0x02040810204081
BITMASK_SPREAD == <<\h81, \h40, \h20, \h10, \h08, \h04, \h02, \h00>>

\* 0x0102040810204080
MASK == <<\h80, \h40, \h20, \h10, \h08, \h04, \h02, \h01>>

from_bitmask_raw_unmasked(mask) ==
    LET raw == u64_from_u8(mask)
        p1  == u64_mul(u64_and(raw, u64_from_u8(\h55)), BITMASK_SPREAD)
        p2  == u64_mul(u64_and(raw, u64_from_u8(\haa)), BITMASK_SPREAD)
    IN  [n |-> u64_or(p1.n, p2.n), panic |-> p1.panic \/ p2.panic]

from_bitmask_raw(mask) ==
    LET raw == u64_from_u8(mask)
        p1  == u64_mul(u64_and(raw, u64_from_u8(\h55)), BITMASK_SPREAD)
        p2  == u64_mul(u64_and(raw, u64_from_u8(\haa)), BITMASK_SPREAD)
    IN  [n |-> u64_and(u64_or(p1.n, p2.n), ALL_ONES),
         panic |-> p1.panic \/ p2.panic]

from_bitmask_le(mask, endian) ==
    LET raw == from_bitmask_raw(mask)
    IN  [n |-> to_le(raw.n, endian), panic |-> raw.panic]

from_bitmask_be_unswapped(mask, endian) ==
    LET raw == from_bitmask_raw(mask)
    IN  [n |-> raw.n, panic |-> raw.panic]

from_bitmask_be(mask, endian) ==
    LET raw == from_bitmask_raw(mask)
    IN  [n |-> to_be(raw.n, endian), panic |-> raw.panic]

\* (raw.wrapping_mul(MASK) >> 56) as u8
to_bitmask_raw(raw) == u64_shr(u64_mul(raw, MASK).n, 56)[1]

to_bitmask_le(self, endian) == to_bitmask_raw(to_le(self, endian))

to_bitmask_be(self, endian) == to_bitmask_raw(to_be(self, endian))

to_u8x8(self) == [n |-> self, panic |-> FALSE]

to_u8x8_with(self, v) ==
    LET s == splat(v)
        p == u64_mul(self, s.n)
    IN  [n |-> p.n, panic |-> s.panic \/ p.panic]

mask_not_complement(self) == u64_not(self)

mask_not(self) == u64_xor(self, rep(\h01))

mask_or(self, other) == u64_or(self, other)

mask_and(self, other) == u64_and(self, other)

select_unspread(self, true_value, false_value) ==
    LET t    == splat(true_value)
        f    == splat(false_value)
        mask == self
    IN  [n |-> u64_or(u64_and(t.n, mask), u64_and(f.n, u64_not(mask))),
         panic |-> t.panic \/ f.panic]

select(self, true_value, false_value) ==
    LET t    == splat(true_value)
        f    == splat(false_value)
        mask == u64_mul(self, u64_from_u8(\hff))
    IN  [n |-> u64_or(u64_and(t.n, mask.n), u64_and(f.n, u64_not(mask.n))),
         panic |-> t.panic \/ f.panic \/ mask.panic]

\* u8x8::reduce_sum: the sum of the eight lanes
reduce_sum(n) == n[1] + n[2] + n[3] + n[4] + n[5] + n[6] + n[7] + n[8]

count_true(self) == [n |-> reduce_sum(to_u8x8(self).n), panic |-> FALSE]

\* u64::count_ones
count_ones(n) ==
    count_of_set_bits(n[1]) + count_of_set_bits(n[2])
    + count_of_set_bits(n[3]) + count_of_set_bits(n[4])
    + count_of_set_bits(n[5]) + count_of_set_bits(n[6])
    + count_of_set_bits(n[7]) + count_of_set_bits(n[8])

count_false_zero_bits(self) ==
    [n |-> 64 - count_ones(self), panic |-> FALSE]

\* 8 - count_ones in u32: with more than 8 bits set the checked - panics
\* and the unchecked one yields 2^32 less the excess, written here as the
\* negative number
count_false(self) ==
    [n |-> 8 - count_ones(self), panic |-> count_ones(self) > 8]

----------------------------------------------------------------------------
(* The state machine of masks: a mask is built by a constructor or a       *)
(* comparison, not, and and or are applied to it any number of times, and  *)
(* one conversion or count is taken of it.                                 *)

\* the masks that and and or combine the current mask with
OtherMasks ==
    {mask_from_array([i \in Lanes |-> p[i % Period]], "little") :
        p \in [0..(Period - 1) -> BOOLEAN]}

InitMask ==
    /\ target_endian \in {"little", "big"}
    /\ a = ALL_FALSE
    /\ b = rep(0)
    /\ op = "none"
    /\ res = rep(0)
    /\ num = 0
    /\ bools = [i \in Lanes |-> FALSE]
    /\ panicked = FALSE
    /\ origin = "ALL_FALSE"
    /\ v1 = 0
    /\ v2 = 0

\* no mask has been built yet
Unbuilt == op = "none" /\ origin = "ALL_FALSE"

\* a constructor named name returns r, built from the u8 argument k
Build(name, r, k) ==
    /\ a' = r.n
    /\ panicked' = r.panic
    /\ origin' = name
    /\ v1' = k
    /\ UNCHANGED <<target_endian, b, op, res, num, bools, v2>>

MaskAllTrue ==
    /\ Unbuilt
    /\ Build("ALL_TRUE", [n |-> ALL_TRUE, panic |-> FALSE], 0)

MaskFromArray ==
    /\ Unbuilt
    /\ \E bits \in [Lanes -> BOOLEAN] :
           Build("from_array",
                 [n |-> mask_from_array(bits, target_endian), panic |-> FALSE], 0)

FromBitmaskLe ==
    /\ Unbuilt
    /\ \E k \in 0..255 :
           Build("from_bitmask_le", from_bitmask_le(k, target_endian), k)

FromBitmaskBe ==
    /\ Unbuilt
    /\ \E k \in 0..255 :
           Build("from_bitmask_be", from_bitmask_be(k, target_endian), k)

MaskOfEquals ==
    /\ Unbuilt
    /\ \E s \in InputArrays, o \in InputArrays :
           Build("equals",
                 equals(from_array(s, target_endian), from_array(o, target_endian)),
                 0)

MaskOfLessThan ==
    /\ Unbuilt
    /\ \E s \in InputArrays, o \in InputArrays :
           Build("less_than",
                 less_than(from_array(s, target_endian), from_array(o, target_endian)),
                 0)

MaskOfGreaterThan ==
    /\ Unbuilt
    /\ \E s \in InputArrays, o \in InputArrays :
           Build("greater_than",
                 greater_than(from_array(s, target_endian),
                              from_array(o, target_endian)),
                 0)

\* a mask has no result taken of it yet and no operation has panicked
Live == op = "none" /\ ~panicked

\* not, and, or: the mask is replaced by the result
Combine(name, n) ==
    /\ a' = n
    /\ origin' = name
    /\ v1' = 0
    /\ UNCHANGED <<target_endian, b, op, res, num, bools, panicked, v2>>

MaskNot == Live /\ Combine("not", mask_not(a))

MaskOr == Live /\ \E o \in OtherMasks : Combine("or", mask_or(a, o))

MaskAnd == Live /\ \E o \in OtherMasks : Combine("and", mask_and(a, o))

\* an operation named name returns the u8x8 r; x and y are its u8 arguments
Take(name, r, x, y) ==
    /\ op' = name
    /\ res' = r.n
    /\ panicked' = r.panic
    /\ v1' = x
    /\ v2' = y
    /\ UNCHANGED <<target_endian, a, b, num, bools, origin>>

\* an operation named name returns the number r.n
TakeNum(name, r) ==
    /\ op' = name
    /\ num' = r.n
    /\ panicked' = r.panic
    /\ UNCHANGED <<target_endian, a, b, res, bools, origin, v1, v2>>

MaskToArray ==
    /\ Live
    /\ \E arr \in mask_to_array(a, target_endian) :
           /\ op' = "to_array"
           /\ bools' = arr
           /\ UNCHANGED <<target_endian, a, b, res, num, panicked, origin,
                          v1, v2>>

ToBitmaskLe ==
    /\ Live
    /\ TakeNum("to_bitmask_le",
               [n |-> to_bitmask_le(a, target_endian), panic |-> FALSE])

ToBitmaskBe ==
    /\ Live
    /\ TakeNum("to_bitmask_be",
               [n |-> to_bitmask_be(a, target_endian), panic |-> FALSE])

ToU8x8 == Live /\ Take("to_u8x8", to_u8x8(a), v1, v2)

ToU8x8With ==
    /\ Live
    /\ \E v \in SampleSet : Take("to_u8x8_with", to_u8x8_with(a, v), v, v2)

Select ==
    /\ Live
    /\ \E t \in SampleSet, f \in SampleSet :
           Take("select", select(a, t, f), t, f)

CountTrue == Live /\ TakeNum("count_true", count_true(a))

CountFalse == Live /\ TakeNum("count_false", count_false(a))

NextMask ==
    \/ MaskAllTrue
    \/ MaskFromArray
    \/ FromBitmaskLe
    \/ FromBitmaskBe
    \/ MaskOfEquals
    \/ MaskOfLessThan
    \/ MaskOfGreaterThan
    \/ MaskNot
    \/ MaskOr
    \/ MaskAnd
    \/ MaskToArray
    \/ ToBitmaskLe
    \/ ToBitmaskBe
    \/ ToU8x8
    \/ ToU8x8With
    \/ Select
    \/ CountTrue
    \/ CountFalse

SpecMask == InitMask /\ [][NextMask]_vars

\* lane i of the mask a is true
M(i) == to_ne_bytes(a, target_endian)[i] = 1

\* lane i of the mask a is false
NotM(i) == to_ne_bytes(a, target_endian)[i] = 0

NumTrue == Cardinality({i \in Lanes : M(i)})

NumFalse == Cardinality({i \in Lanes : NotM(i)})

----------------------------------------------------------------------------
\* C11: for every k in 0..255 the mask built by from_bitmask_le(k) is built
\* without a panic and its to_bitmask_le is k again, and likewise
\* to_bitmask_be of the mask built by from_bitmask_be(k) is k.
C11_BitmaskRoundTrip ==
    /\ (op = "none" /\ origin \in {"from_bitmask_le", "from_bitmask_be"}) =>
           ~panicked
    /\ (op = "to_bitmask_le" /\ origin = "from_bitmask_le") => num = v1
    /\ (op = "to_bitmask_be" /\ origin = "from_bitmask_be") => num = v1

C11_Witness ==
    /\ target_endian = "big"
    /\ origin = "from_bitmask_le"
    /\ op = "to_bitmask_le"
    /\ v1 = 202
    /\ num = 202

\* C12: lane i of the mask built by from_bitmask_le(k) is true exactly when
\* bit i of k is set, and lane i of the mask built by from_bitmask_be(k)
\* exactly when bit 7 - i of k is set; to_bitmask_le of a mask built by
\* from_array sets bit i exactly when lane i is true, and to_bitmask_be
\* sets bit 7 - i exactly when lane i is true.
C12_BitmaskLaneOrder ==
    /\ (op = "to_array" /\ origin = "from_bitmask_le") =>
           \A i \in Lanes : bools[i] = (Bit(v1, i) = 1)
    /\ (op = "to_array" /\ origin = "from_bitmask_be") =>
           \A i \in Lanes : bools[i] = (Bit(v1, 7 - i) = 1)
    /\ (op = "to_bitmask_le" /\ origin = "from_array") =>
           \A i \in Lanes : M(i) = (Bit(num, i) = 1)
    /\ (op = "to_bitmask_be" /\ origin = "from_array") =>
           \A i \in Lanes : M(i) = (Bit(num, 7 - i) = 1)

C12_Witness ==
    /\ target_endian = "little"
    /\ origin = "from_bitmask_be"
    /\ op = "to_array"
    /\ v1 = 1
    /\ bools[7] = TRUE
    /\ \A i \in 0..6 : bools[i] = FALSE

\* C13: lane i of mask.select(x, y) is x where lane i of the mask is true
\* and y where it is false, and select does not panic.
C13_SelectLanes ==
    op = "select" =>
        /\ ~panicked
        /\ \A i \in Lanes : R(i) = IF M(i) THEN v1 ELSE v2

C13_Witness ==
    /\ op = "select"
    /\ v1 = 255
    /\ v2 = 128
    /\ M(0) = TRUE
    /\ M(1) = FALSE
    /\ R(0) = 255
    /\ R(1) = 128

\* C14: lane i of mask.to_u8x8_with(v) is v where lane i of the mask is
\* true and 0x00 where it is false, and to_u8x8 is the case v = 0x01.
C14_ToU8x8WithLanes ==
    /\ op = "to_u8x8_with" =>
           /\ ~panicked
           /\ \A i \in Lanes : R(i) = IF M(i) THEN v1 ELSE 0
    /\ op = "to_u8x8" =>
           /\ ~panicked
           /\ \A i \in Lanes : R(i) = IF M(i) THEN 1 ELSE 0

\* C15: every byte of a mask built by ALL_FALSE, ALL_TRUE, from_array,
\* from_bitmask_le, from_bitmask_be, equals, less_than or greater_than, and
\* of every mask that not, and and or make of it, is 0x00 or 0x01.
C15_MaskWellFormed == \A k \in Limbs : a[k] \in {0, 1}

C15_Witness ==
    /\ origin = "not"
    /\ op = "none"
    /\ a[1] = 1
    /\ a[2] = 0
    /\ \A k \in Limbs : a[k] \in {0, 1}

\* C16: count_true is the number of true lanes and count_false the number
\* of false lanes; both lie in 0..8 and they add up to 8.
C16_Counts ==
    /\ op = "count_true" =>
           /\ ~panicked
           /\ num = NumTrue
           /\ num \in 0..8
           /\ num + count_false(a).n = 8
    /\ op = "count_false" =>
           /\ ~panicked
           /\ num = NumFalse
           /\ num \in 0..8
           /\ count_true(a).n + num = 8

C16_Witness ==
    /\ op = "count_false"
    /\ num = 3
    /\ NumTrue = 5
    /\ count_true(a).n = 5

----------------------------------------------------------------------------
(* from_byte_slice and from_byte_slice_mut (u8x8.rs).  usize is taken to   *)
(* be 64 bits wide: the address of the slice is a word of eight bytes like *)
(* a u64, and its length is a number.                                      *)

\* core::mem::align_of::<u8x8>(), the alignment of u64
ALIGN == 8

\* the longest slice of the model
MaxLen == 17

\* usize::next_multiple_of(ALIGN): n is the result modulo 2^64, panic tells
\* that the true result does not fit
next_multiple_of(addr) ==
    LET r == addr[1] % ALIGN
    IN  IF r = 0 THEN [n |-> addr, panic |-> FALSE]
        ELSE u64_add(addr, u64_from_u8(ALIGN - r))

\* core::cmp::min(w, len) for a usize w and a length len <= MaxLen
usize_min(w, len) ==
    IF (\A k \in 2..8 : w[k] = 0) /\ w[1] <= len THEN w[1] ELSE len

\* core::ptr::dangling::<u8x8>(): the address ALIGN
dangling == u64_from_u8(ALIGN)

\* the split that from_byte_slice makes of the slice of len bytes at addr:
\* prior, middle and remain are the lengths of the three parts (middle in
\* u8x8 elements), ptr is the address of the middle part
from_byte_slice(addr, len) ==
    LET next        == next_multiple_of(addr)
        pad         == u64_sub(next.n, addr)
        prior_count == usize_min(pad.n, len)
        remain_len  == len - prior_count
        u8x8_len    == remain_len \div 8
        use_len     == u8x8_len * 8
        panic       == next.panic \/ pad.panic
    IN  IF remain_len = 0
        THEN [prior |-> prior_count, ptr |-> dangling, middle |-> 0,
              remain |-> 0, panic |-> panic]
        ELSE [prior |-> prior_count,
              ptr |-> u64_add(addr, u64_from_u8(prior_count)).n,
              middle |-> u8x8_len, remain |-> remain_len - use_len,
              panic |-> panic]

from_byte_slice_mut(addr, len) ==
    LET next        == next_multiple_of(addr)
        pad         == u64_sub(next.n, addr)
        prior_count == usize_min(pad.n, len)
        remain_len  == len - prior_count
        u8x8_len    == remain_len \div 8
        use_len     == u8x8_len * 8
        panic       == next.panic \/ pad.panic
    IN  IF remain_len = 0
        THEN [prior |-> prior_count, ptr |-> dangling, middle |-> 0,
              remain |-> 0, panic |-> panic]
        ELSE [prior |-> prior_count,
              ptr |-> u64_add(addr, u64_from_u8(prior_count)).n,
              middle |-> u8x8_len, remain |-> remain_len - use_len,
              panic |-> panic]

\* The slices of the model: at the bottom of the address space, below a
\* carry out of the low three bytes of the address, and at the top of the
\* address space.  No slice starts at address 0 and none reaches past the
\* last address: gap is the number of addresses from its start to the last.
LowSlices ==
    {[addr |-> u64_from_u8(n), len |-> l] : n \in 1..16, l \in 0..MaxLen}

CarrySlices ==
    {[addr |-> <<255 - n, 255, 255, 0, 0, 0, 0, 0>>, len |-> l] :
        n \in 0..7, l \in 0..MaxLen}

TopSlices ==
    UNION {{[addr |-> u64_sub(rep(255), u64_from_u8(gap)).n, len |-> l] :
               l \in 0..gap} : gap \in 0..MaxLen}

\* a: the address of the slice; v1: its length; res: the lengths of the
\* three parts returned; b: the address of the middle part
InitSlice ==
    /\ target_endian \in {"little", "big"}
    /\ \E s \in LowSlices \cup CarrySlices \cup TopSlices :
           a = s.addr /\ v1 = s.len
    /\ b = rep(0)
    /\ op = "none"
    /\ res = <<0, 0, 0>>
    /\ num = 0
    /\ bools = [i \in Lanes |-> FALSE]
    /\ panicked = FALSE
    /\ origin = "slice"
    /\ v2 = 0

Split(name, r) ==
    /\ op = "none"
    /\ op' = name
    /\ res' = <<r.prior, r.middle, r.remain>>
    /\ b' = r.ptr
    /\ panicked' = r.panic
    /\ UNCHANGED <<target_endian, a, num, bools, origin, v1, v2>>

FromByteSlice == Split("from_byte_slice", from_byte_slice(a, v1))

FromByteSliceMut == Split("from_byte_slice_mut", from_byte_slice_mut(a, v1))

NextSlice ==
    \/ FromByteSlice
    \/ FromByteSliceMut

SpecSlice == InitSlice /\ [][NextSlice]_vars

\* C17: from_byte_slice and from_byte_slice_mut return, for every slice of
\* v1 bytes at address a, three parts that follow one another and make up
\* the slice: the prefix and the suffix have at most 7 bytes, the middle
\* part starts at a multiple of ALIGN, directly after the prefix when it
\* is not empty, and is empty only if fewer than 8 bytes follow the prefix;
\* both split at the same two points.
C17_SliceSplit ==
    op \in {"from_byte_slice", "from_byte_slice_mut"} =>
        /\ ~panicked
        /\ res[1] + 8 * res[2] + res[3] = v1
        /\ res[1] <= 7
        /\ res[3] <= 7
        /\ b[1] % ALIGN = 0
        /\ res[2] > 0 => b = u64_add(a, u64_from_u8(res[1])).n
        /\ res[2] = 0 => v1 - res[1] < 8
        /\ op = "from_byte_slice_mut" =>
               /\ res[1] = from_byte_slice(a, v1).prior
               /\ res[2] = from_byte_slice(a, v1).middle
        /\ op = "from_byte_slice" =>
               /\ res[1] = from_byte_slice_mut(a, v1).prior
               /\ res[2] = from_byte_slice_mut(a, v1).middle

----------------------------------------------------------------------------
\* C18: no overflow-checked +, - or * of a u8x8 operation (splat, the
\* comparisons, the additions and subtractions of u8x8.rs and of lib.rs,
\* abs_difference, max, min, mean, popcount, and msb_mask inside them)
\* overflows or underflows the 64-bit word, so that none of them panics.
C18_NoOverflow == op # "none" => ~panicked

C18_Witness ==
    /\ op = "splat"
    /\ A(0) = 255
    /\ res = rep(255)
    /\ ~panicked

====
